---- MODULE Spec2Model ----
(***************************************************************************)
(* Model of the titration animation (src/main.py): the TitrationAnimation  *)
(* widget's simulation state, its timer handler update_animation, its      *)
(* command methods, and the GraphWidget sample history driven by the       *)
(* ControlPanel.                                                           *)
(*                                                                         *)
(* Numbers.  The program computes in binary floating point; the model      *)
(* computes the same expressions exactly, on integers in fixed units:      *)
(*   scene coordinates (y, vy, liquid_level)   1 unit = 0.0005             *)
(*   volume_ml, ml_per_drop                    1 unit = 0.01 mL            *)
(*   acid_molarity, base_molarity              1 unit = 0.01 mol/L         *)
(*   acid_volume_ml                            1 unit = 1 mL               *)
(*   drop_rate                                 1 unit = 1/50               *)
(*   acid_moles, base_moles                    1 unit = 1e-7 mol           *)
(* A pH value is kept as the exact real it denotes (see NegLog).           *)
(*                                                                         *)
(* The module also holds the standalone TitrationSimulation of            *)
(* src/simulation.py (volume in units of 0.5 mL, dt in seconds); no code   *)
(* connects it to the widget, and no action changes both.                  *)
(*                                                                         *)
(* Left out: the splash particles (random, read by nothing), frame_count   *)
(* (an unbounded counter read by nothing) and all drawing.                 *)
(***************************************************************************)
EXTENDS Integers, Sequences, FiniteSets

(***************************************************************************)
(* Bounds of the model.                                                    *)
(***************************************************************************)
\* droplets spawned per run, and in flight at once, under Spec
MaxDrops == 3
MaxInFlight == 1
\* the same two caps under DeepSpec (ticks and the valve only)
DeepMaxDrops == 47
DeepMaxInFlight == 2
\* the same two caps under LevelSpec (one run up to the full flask)
LevelMaxDrops == 368
LevelMaxInFlight == 1

(***************************************************************************)
(* Program constants, in model units.                                      *)
(***************************************************************************)
ml_per_drop == 5
flask_bottom_y == -1800
spawn_y == 1600
acceleration == -4
initial_liquid_level == 300
level_increment == 3
max_liquid_level == 1400
initial_drop_rate == 5
RateOne == 50
\* |base_moles - acid_moles| < 1e-6 mol, in units of 1e-7 mol
equivalence_tolerance == 10
\* Ka = Kb = 1.8e-5 = 18 * 10^-6
Ka == 18
Kb == 18

\* TitrationSimulation.max_volume: 50.0 mL, in units of 0.5 mL
max_volume == 100

order == <<"SA_SB", "WA_SB", "SA_WB", "WA_WB">>

(***************************************************************************)
(* Exact pH values.  NegLog(n, d, e, r) denotes the real number            *)
(*     -log10( ((n/d) * 10^-e) ^ (1/r) ),   n > 0, d > 0, r in {1, 2}      *)
(* in canonical form: n/d in lowest terms, neither n nor d a multiple of   *)
(* 10.  log10 of a rational is rational only for a power of ten, so two    *)
(* canonical forms with the same r are equal exactly when the reals are.   *)
(* (A form with r = 2 whose argument is a perfect square is not folded     *)
(* into r = 1; no input of the model produces one.)                        *)
(***************************************************************************)
\* (the one-element sets bind each intermediate value once it is computed)
RECURSIVE GCD(_, _)
GCD(a, b) ==
    IF b = 0 THEN a
    ELSE CHOOSE g \in {GCD(b, rem) : rem \in {a % b}} : TRUE

RECURSIVE Strip10(_, _, _, _)
Strip10(n, d, e, r) ==
    IF n % 10 = 0 THEN
        CHOOSE v \in {Strip10(m, d, x, r) : m \in {n \div 10}, x \in {e - 1}} : TRUE
    ELSE IF d % 10 = 0 THEN
        CHOOSE v \in {Strip10(n, m, x, r) : m \in {d \div 10}, x \in {e + 1}} : TRUE
    ELSE [num |-> n, den |-> d, exp |-> e, root |-> r]

NegLog(n, d, e, r) ==
    CHOOSE v \in {Strip10(a \div g, b \div g, e, r) :
                      <<a, b, g>> \in {<<n, d, GCD(n, d)>>}} : TRUE

\* 1.0, 6.0, 7.0, 8.0
PH1 == NegLog(1, 1, 1, 1)
PH6 == NegLog(1, 1, 6, 1)
PH7 == NegLog(1, 1, 7, 1)
PH8 == NegLog(1, 1, 8, 1)

\* -math.log10(max(n/d, eps)) with eps = 1e-12.  Every positive n/d of the
\* model has d < 2^31, so n/d > eps: the floor applies exactly when n <= 0.
NegLogMaxEps(n, d, e, r) ==
    IF n <= 0 THEN NegLog(1, 1, 12, 1) ELSE NegLog(n, d, e, r)

Abs(x) ==
    IF x < 0 THEN -x ELSE x

(***************************************************************************)
(* The chemistry model of update_animation: the pH after the drop that     *)
(* made the added volume vol.  H and OH are in mol/L:                      *)
(*   (acid_moles - base_moles) / total_volume_L = (acid - base) / total.   *)
(***************************************************************************)
ExcessBasePH(acid, base, total) ==
    \* OH = (base - acid)/total; pOH = -log10(max(OH, eps)); pH = 14 - pOH
    IF base - acid <= 0 THEN NegLog(1, 1, 2, 1)
    ELSE NegLog(total, base - acid, 14, 1)

ChemistryModel(rt, acid_M, base_M, acid_vol, vol) ==
    LET acid == 100 * acid_M * acid_vol
        base == base_M * vol
        total == 100 * (100 * acid_vol + vol)
    IN  IF rt = "SA_SB" THEN
            IF base < acid THEN NegLogMaxEps(acid - base, total, 0, 1)
            ELSE IF Abs(base - acid) < equivalence_tolerance THEN PH7
            ELSE ExcessBasePH(acid, base, total)
        ELSE IF rt = "WA_SB" THEN
            IF base < acid THEN
                \* A < eps: H = sqrt(Ka * acid_molarity)
                IF base <= 0 THEN NegLog(Ka * acid_M, 1, 8, 2)
                \* pKa + log10(A / HA) = -log10(Ka * HA / A)
                ELSE NegLog(Ka * (acid - base), base, 6, 1)
            ELSE IF Abs(base - acid) < equivalence_tolerance THEN
                \* 14 + log10(sqrt((1e-14 / Ka) * C)), C = acid / total
                NegLog(Ka * total, acid, 20, 2)
            ELSE ExcessBasePH(acid, base, total)
        ELSE IF rt = "SA_WB" THEN
            IF base < acid THEN NegLogMaxEps(acid - base, total, 0, 1)
            ELSE IF Abs(base - acid) < equivalence_tolerance THEN
                \* -log10(sqrt((1e-14 / Kb) * C))
                NegLog(acid, Kb * total, 8, 2)
            ELSE
                \* OH = sqrt(Kb * B / total); pH = 14 + log10(max(OH, eps))
                NegLog(total, Kb * (base - acid), 22, 2)
        ELSE
            IF Ka = Kb THEN PH7
            ELSE IF Ka > Kb THEN PH6
            ELSE PH8

(***************************************************************************)
(* State.  The fields of TitrationAnimation and of GraphWidget, then the   *)
(* history variables of the verification.                                  *)
(***************************************************************************)
VARIABLES
    droplets,            \* list of Droplet: [id, y, vy], oldest first
    liquid_level,
    burette_valve_open,
    drop_rate,
    ph_value,
    total_drops,
    volume_ml,
    mix_ratio,
    indicator_active,
    reaction_type,
    acid_molarity,
    base_molarity,
    acid_volume_ml,
    eq_volume_ml,        \* a rational <<numerator, denominator>>, in mL
    x_data,              \* GraphWidget: the sample history
    y_data,
    next_id,             \* history: identity of the next Droplet object of the run
    arrived,             \* history: ids that incremented total_drops in this run
    surface_y,           \* the local surface_y of the latest update_animation
    crossing_tests,      \* history: the crossing tests of the run's latest
                         \* update_animation
    discarded,           \* history: the droplets in flight that the latest
                         \* reset_animation cleared, while no tick has run since
    last_call,           \* history: the handler that returned last ("command"
                         \* for the three that assign one field)
    volume,              \* TitrationSimulation
    running,
    finished,
    data                 \* list of samples [volume, pH]

animation == <<droplets, liquid_level, burette_valve_open, drop_rate, ph_value,
               total_drops, volume_ml, mix_ratio, indicator_active, reaction_type,
               acid_molarity, base_molarity, acid_volume_ml, eq_volume_ml>>

graph == <<x_data, y_data>>

history == <<next_id, arrived, surface_y, crossing_tests, discarded, last_call>>

simulation == <<volume, running, finished, data>>

vars == <<animation, graph, history, simulation>>

\* Droplet.__init__(0.0, 0.8); id stands for the identity of the object
Droplet(id) ==
    [id |-> id, y |-> spawn_y, vy |-> 0]

\* an update that returns before it integrates: the droplet hangs
Droplet_update_no_fall(drop) ==
    drop

Droplet_update(drop) ==
    [drop EXCEPT !.vy = drop.vy + acceleration,
                 !.y = drop.y + (drop.vy + acceleration)]

\* a minimum that lets its first argument through: no cap
Min_uncapped(a, b) ==
    a

Min(a, b) ==
    IF a < b THEN a ELSE b

Ratio(n, d) ==
    LET g == GCD(Abs(n), Abs(d))
        s == IF d < 0 THEN -1 ELSE 1
    IN  <<(s * n) \div g, (s * d) \div g>>

Init ==
    /\ droplets = <<>>
    /\ liquid_level = initial_liquid_level
    /\ burette_valve_open = FALSE
    /\ drop_rate = initial_drop_rate
    /\ ph_value = PH1
    /\ total_drops = 0
    /\ volume_ml = 0
    /\ mix_ratio = 0
    /\ indicator_active = TRUE
    /\ reaction_type = "SA_SB"
    /\ acid_molarity = 10
    /\ base_molarity = 10
    /\ acid_volume_ml = 50
    /\ eq_volume_ml = <<6, 1>>
    /\ x_data = <<>>
    /\ y_data = <<>>
    /\ next_id = 1
    /\ arrived = <<>>
    /\ surface_y = flask_bottom_y + initial_liquid_level
    /\ crossing_tests = <<>>
    /\ discarded = 0
    /\ last_call = "__init__"
    /\ volume = 0
    /\ running = FALSE
    /\ finished = FALSE
    /\ data = <<>>

(***************************************************************************)
(* update_animation: the droplet loop.                                     *)
(***************************************************************************)
\* a loop that forgets self.droplets.remove(drop)
ListRemove_forgotten(list, drop) ==
    list

\* list.remove(drop): the first element that is the object drop
RECURSIVE ListRemove(_, _)
ListRemove(list, drop) ==
    IF list = <<>> THEN <<>>
    ELSE IF Head(list).id = drop.id THEN Tail(list)
    ELSE <<Head(list)>> \o ListRemove(Tail(list), drop)

\* drop.update() changes the object, which the list holds
RECURSIVE ListUpdate(_, _)
ListUpdate(list, drop) ==
    IF list = <<>> THEN <<>>
    ELSE IF Head(list).id = drop.id THEN <<drop>> \o Tail(list)
    ELSE <<Head(list)>> \o ListUpdate(Tail(list), drop)

\* the volume computed before total_drops is incremented
DropHit_volume_first(st, drop) ==
    LET drops == st.total_drops + 1
        vol == st.total_drops * ml_per_drop
    IN  [st EXCEPT
            !.total_drops = drops,
            !.volume_ml = vol,
            !.liquid_level = Min(st.liquid_level + level_increment, max_liquid_level),
            !.ph_value = ChemistryModel(reaction_type, acid_molarity, base_molarity,
                                        acid_volume_ml, vol),
            !.droplets = ListRemove(st.droplets, drop),
            !.arrived = Append(st.arrived, drop.id)]

\* the body of "if drop.y < surface_y": the drop hit the liquid surface
DropHit(st, drop) ==
    LET drops == st.total_drops + 1
        vol == drops * ml_per_drop
    IN  [st EXCEPT
            !.total_drops = drops,
            !.volume_ml = vol,
            !.liquid_level = Min(st.liquid_level + level_increment, max_liquid_level),
            !.ph_value = ChemistryModel(reaction_type, acid_molarity, base_molarity,
                                        acid_volume_ml, vol),
            !.droplets = ListRemove(st.droplets, drop),
            !.arrived = Append(st.arrived, drop.id)]

\* one pass of "for drop in self.droplets[:]": drop.update(), then the test
\* against the surface_y read before the loop
LoopBody(st, head, sy) ==
    LET drop == Droplet_update(head)
        moved == [st EXCEPT
                     !.droplets = ListUpdate(st.droplets, drop),
                     !.crossing_tests = Append(st.crossing_tests,
                         [id |-> drop.id, y |-> drop.y, against |-> sy,
                          level |-> st.liquid_level, hit |-> drop.y < sy])]
    IN  IF drop.y < sy THEN DropHit(moved, drop) ELSE moved

\* the loop over the copy of the list (the one-element set binds the state
\* after each pass once it is computed)
RECURSIVE DropletLoop(_, _, _)
DropletLoop(copy, sy, st) ==
    IF copy = <<>> THEN st
    ELSE CHOOSE result \in
             {DropletLoop(Tail(copy), sy, after) :
                  after \in {LoopBody(st, Head(copy), sy)}} : TRUE

\* random.random() < drop_rate can come out true iff drop_rate > 0 and false
\* iff drop_rate < 1.  maxDrops and maxInFlight cap the spawning.
update_animation(maxDrops, maxInFlight) ==
    \E spawn \in BOOLEAN :
        /\ spawn => /\ burette_valve_open
                    /\ drop_rate > 0
                    /\ next_id <= maxDrops
                    /\ Len(droplets) < maxInFlight
        /\ ~spawn => (~burette_valve_open \/ drop_rate < RateOne)
        /\ LET spawned == IF spawn THEN Append(droplets, Droplet(next_id))
                          ELSE droplets
               sy == flask_bottom_y + liquid_level
           IN  \E st \in {DropletLoop(spawned, sy,
                        [droplets |-> spawned, total_drops |-> total_drops,
                         volume_ml |-> volume_ml, liquid_level |-> liquid_level,
                         ph_value |-> ph_value, arrived |-> arrived,
                         crossing_tests |-> <<>>])} :
                   /\ droplets' = st.droplets
                   /\ total_drops' = st.total_drops
                   /\ volume_ml' = st.volume_ml
                   /\ liquid_level' = st.liquid_level
                   /\ ph_value' = st.ph_value
                   /\ arrived' = st.arrived
                   /\ crossing_tests' = st.crossing_tests
                   /\ surface_y' = sy
                   /\ next_id' = IF spawn THEN next_id + 1 ELSE next_id
        /\ discarded' = 0
        /\ last_call' = "update_animation"
        /\ UNCHANGED <<burette_valve_open, drop_rate, mix_ratio, indicator_active,
                       reaction_type, acid_molarity, base_molarity, acid_volume_ml,
                       eq_volume_ml, graph, simulation>>

(***************************************************************************)
(* The command methods.                                                    *)
(***************************************************************************)
\* a valve button that also zeroes the counters
toggle_valve_zeroes ==
    /\ burette_valve_open' = ~burette_valve_open
    /\ total_drops' = 0
    /\ volume_ml' = 0
    /\ last_call' = "command"
    /\ UNCHANGED <<droplets, liquid_level, drop_rate, ph_value,
                   mix_ratio, indicator_active, reaction_type,
                   acid_molarity, base_molarity, acid_volume_ml, eq_volume_ml,
                   graph, next_id, arrived, surface_y, crossing_tests,
                   discarded, simulation>>

toggle_valve ==
    /\ burette_valve_open' = ~burette_valve_open
    /\ last_call' = "command"
    /\ UNCHANGED <<droplets, liquid_level, drop_rate, ph_value, total_drops,
                   volume_ml, mix_ratio, indicator_active, reaction_type,
                   acid_molarity, base_molarity, acid_volume_ml, eq_volume_ml,
                   graph, next_id, arrived, surface_y, crossing_tests,
                   discarded, simulation>>

\* the flow-rate slider: setRange(1, 10); drop_rate = val / 50.0
DropRateInputs == {2}

set_drop_rate(val) ==
    /\ drop_rate' = val
    /\ last_call' = "command"
    /\ UNCHANGED <<droplets, liquid_level, burette_valve_open, ph_value, total_drops,
                   volume_ml, mix_ratio, indicator_active, reaction_type,
                   acid_molarity, base_molarity, acid_volume_ml, eq_volume_ml,
                   graph, next_id, arrived, surface_y, crossing_tests,
                   discarded, simulation>>

toggle_indicator ==
    /\ indicator_active' = ~indicator_active
    /\ last_call' = "command"
    /\ UNCHANGED <<droplets, liquid_level, burette_valve_open, drop_rate, ph_value,
                   total_drops, volume_ml, mix_ratio, reaction_type,
                   acid_molarity, base_molarity, acid_volume_ml, eq_volume_ml,
                   graph, next_id, arrived, surface_y, crossing_tests,
                   discarded, simulation>>

\* a reset that leaves the liquid level where it was
reset_animation_keeps_level ==
    /\ mix_ratio' = 0
    /\ ph_value' = PH1
    /\ total_drops' = 0
    /\ volume_ml' = 0
    /\ droplets' = <<>>
    /\ burette_valve_open' = FALSE
    /\ next_id' = 1
    /\ arrived' = <<>>
    /\ crossing_tests' = <<>>
    /\ discarded' = Len(droplets)
    /\ UNCHANGED <<liquid_level, surface_y>>

\* a reset that forgets droplets.clear(): the falling droplets stay
reset_animation_keeps_droplets ==
    /\ mix_ratio' = 0
    /\ ph_value' = PH1
    /\ liquid_level' = initial_liquid_level
    /\ total_drops' = 0
    /\ volume_ml' = 0
    /\ burette_valve_open' = FALSE
    /\ next_id' = 1
    /\ arrived' = <<>>
    /\ crossing_tests' = <<>>
    /\ discarded' = 0
    /\ UNCHANGED <<droplets, surface_y>>

\* the assignments of reset_animation; droplets.clear() ends the run's objects
reset_animation ==
    /\ mix_ratio' = 0
    /\ ph_value' = PH1
    /\ liquid_level' = initial_liquid_level
    /\ total_drops' = 0
    /\ volume_ml' = 0
    /\ droplets' = <<>>
    /\ burette_valve_open' = FALSE
    /\ next_id' = 1
    /\ arrived' = <<>>
    /\ crossing_tests' = <<>>
    /\ discarded' = Len(droplets)
    /\ UNCHANGED surface_y

Index(seq, x) ==
    CHOOSE i \in 1..Len(seq) : seq[i] = x

\* a type button that steps the type and resets nothing
toggle_reaction_type_without_reset ==
    /\ reaction_type' = order[(Index(order, reaction_type) % Len(order)) + 1]
    /\ last_call' = "toggle_reaction_type"
    /\ UNCHANGED <<droplets, liquid_level, burette_valve_open, drop_rate, ph_value,
                   total_drops, volume_ml, mix_ratio, indicator_active,
                   acid_molarity, base_molarity, acid_volume_ml, eq_volume_ml,
                   graph, next_id, arrived, surface_y, crossing_tests,
                   discarded, simulation>>

toggle_reaction_type ==
    /\ reaction_type' = order[(Index(order, reaction_type) % Len(order)) + 1]
    /\ reset_animation
    /\ last_call' = "toggle_reaction_type"
    /\ UNCHANGED <<drop_rate, indicator_active, acid_molarity, base_molarity,
                   acid_volume_ml, eq_volume_ml, graph, simulation>>

\* <<acid_M, base_M, acid_vol>>: slider positions of ControlPanel.update_params
\* (1..100, 1..100, 10..100), and a direct call with the base molarity 0
ParamInputs ==
    { <<1, 73, 11>>, <<1, 100, 10>>, <<10, 0, 50>> }

\* base_M = 0: the division raises ZeroDivisionError after the three
\* assignments, and reset_animation is not reached
set_parameters(acid_M, base_M, acid_vol) ==
    /\ acid_molarity' = acid_M
    /\ base_molarity' = base_M
    /\ acid_volume_ml' = acid_vol
    /\ IF base_M = 0
       THEN /\ last_call' = "ZeroDivisionError"
            /\ UNCHANGED <<droplets, liquid_level, burette_valve_open, ph_value,
                           total_drops, volume_ml, mix_ratio, eq_volume_ml,
                           next_id, arrived, surface_y, crossing_tests,
                           discarded>>
       ELSE /\ eq_volume_ml' = Ratio(acid_M * acid_vol, base_M)
            /\ reset_animation
            /\ last_call' = "set_parameters"
    /\ UNCHANGED <<drop_rate, indicator_active, reaction_type, graph, simulation>>

\* GraphWidget.reset
graph_reset ==
    /\ x_data' = <<>>
    /\ y_data' = <<>>

\* a reset button that also puts the reaction type and the flow rate back
reset_experiment_restores_defaults ==
    /\ reset_animation
    /\ graph_reset
    /\ reaction_type' = "SA_SB"
    /\ drop_rate' = initial_drop_rate
    /\ last_call' = "reset_experiment"
    /\ UNCHANGED <<indicator_active, acid_molarity,
                   base_molarity, acid_volume_ml, eq_volume_ml, simulation>>

\* ControlPanel.reset_experiment
reset_experiment ==
    /\ reset_animation
    /\ graph_reset
    /\ last_call' = "reset_experiment"
    /\ UNCHANGED <<drop_rate, indicator_active, reaction_type, acid_molarity,
                   base_molarity, acid_volume_ml, eq_volume_ml, simulation>>

(***************************************************************************)
(* TitrationSimulation (src/simulation.py).                                *)
(***************************************************************************)
\* compute_pH(v) = 2 + 10 * sigmoid(x), x = (v - 25) / 3 with v in mL: the
\* value is kept as base + span / (1 + exp(-x)) with x an exact rational
compute_pH(v) ==
    [base |-> 2, span |-> 10, x |-> Ratio(v - 50, 6)]

\* TitrationSimulation.reset: self.__init__()
reset ==
    /\ volume' = 0
    /\ running' = FALSE
    /\ finished' = FALSE
    /\ data' = <<>>
    /\ last_call' = "TitrationSimulation.reset"
    /\ UNCHANGED <<animation, graph, next_id, arrived, surface_y, crossing_tests,
                   discarded>>

start_stop ==
    /\ running' = ~running
    /\ last_call' = "TitrationSimulation.start_stop"
    /\ UNCHANGED <<volume, finished, data>>
    /\ UNCHANGED <<animation, graph, next_id, arrived, surface_y, crossing_tests,
                   discarded>>

\* the frame times of update(dt), in seconds
DtInputs == {10, 30, 45}

\* an update that returns early only when not running
update_ignores_finished(dt) ==
    /\ IF ~running
       THEN UNCHANGED simulation
       ELSE \E v \in {volume + dt} :
                /\ volume' = v
                /\ finished' = (finished \/ v >= max_volume)
                /\ running' = (running /\ v < max_volume)
                /\ data' = Append(data, [volume |-> v, pH |-> compute_pH(v)])
    /\ last_call' = "TitrationSimulation.update"
    /\ UNCHANGED <<animation, graph, next_id, arrived, surface_y, crossing_tests,
                   discarded>>

\* volume += dt * 0.5: dt seconds add dt units of 0.5 mL
update(dt) ==
    /\ IF ~running \/ finished
       THEN UNCHANGED simulation
       ELSE \E v \in {volume + dt} :
                /\ volume' = v
                /\ finished' = (finished \/ v >= max_volume)
                /\ running' = (running /\ v < max_volume)
                /\ data' = Append(data, [volume |-> v, pH |-> compute_pH(v)])
    /\ last_call' = "TitrationSimulation.update"
    /\ UNCHANGED <<animation, graph, next_id, arrived, surface_y, crossing_tests,
                   discarded>>

(***************************************************************************)
(* Specifications.                                                         *)
(***************************************************************************)
Tick ==
    update_animation(MaxDrops, MaxInFlight)

SetDropRate ==
    \E val \in DropRateInputs : set_drop_rate(val)

SetParameters ==
    \E p \in ParamInputs : set_parameters(p[1], p[2], p[3])

Next ==
    \/ Tick
    \/ toggle_valve
    \/ SetDropRate
    \/ toggle_indicator
    \/ toggle_reaction_type
    \/ SetParameters
    \/ reset_experiment

Spec == Init /\ [][Next]_vars

\* one run, many drops: the timer and the valve button only
DeepTick ==
    update_animation(DeepMaxDrops, DeepMaxInFlight)

DeepNext ==
    \/ DeepTick
    \/ toggle_valve

DeepSpec == Init /\ [][DeepNext]_vars

\* a flask filled to the brim: the timer, the valve button and the reset
\* button, one droplet falling at a time
LevelTick ==
    update_animation(LevelMaxDrops, LevelMaxInFlight)

LevelNext ==
    \/ LevelTick
    \/ toggle_valve
    \/ reset_experiment

LevelSpec == Init /\ [][LevelNext]_vars

\* the timer, the valve button and the two buttons that reset; the timer
\* fires every 16 ms (timer.start(16)), so ticks keep occurring
LiveNext ==
    \/ Tick
    \/ toggle_valve
    \/ toggle_reaction_type
    \/ reset_experiment

LiveSpec == Init /\ [][LiveNext]_vars /\ WF_vars(Tick)

\* the standalone simulation: its three methods, in any order
Update ==
    \E dt \in DtInputs : update(dt)

SimNext ==
    \/ Update
    \/ start_stop
    \/ reset

SimSpec == Init /\ [][SimNext]_vars

(***************************************************************************)
(* Properties.                                                             *)
(***************************************************************************)
InFlightIds ==
    {droplets[i].id : i \in 1..Len(droplets)}

ArrivedIds ==
    {arrived[i] : i \in 1..Len(arrived)}

\* the latest handler was an update_animation in which a drop hit the surface
DropArrived ==
    /\ last_call = "update_animation"
    /\ \E i \in 1..Len(crossing_tests) : crossing_tests[i].hit

ResetReturned ==
    last_call \in {"reset_experiment", "toggle_reaction_type", "set_parameters"}

\* C1: within a run, total_drops is the number of droplets that went below
\* the surface_y of their tick: each such droplet incremented it once and left
\* the list, none is counted twice, and none that went below stays in flight.
C1_EveryCrossingCountedOnce ==
    /\ total_drops = Len(arrived)
    /\ Cardinality(ArrivedIds) = Len(arrived)
    /\ InFlightIds \cap ArrivedIds = {}
    /\ InFlightIds \cup ArrivedIds = 1..(next_id - 1)
    /\ Cardinality(InFlightIds) = Len(droplets)
    /\ \A i \in 1..Len(droplets) : droplets[i].y >= surface_y
    /\ \A i \in 1..Len(crossing_tests) :
           crossing_tests[i].hit <=> crossing_tests[i].id \in ArrivedIds

\* a second arrival of the run, counted while a younger droplet is falling
C1_Witness ==
    /\ DropArrived
    /\ total_drops >= 2
    /\ droplets # <<>>

\* C2: every droplet of a tick crosses exactly when its y is below
\* flask_bottom_y + liquid_level as raised by the earlier arrivals of that tick.
C2_CrossingUsesRaisedLevel ==
    \A i \in 1..Len(crossing_tests) :
        crossing_tests[i].hit <=>
            crossing_tests[i].y < flask_bottom_y + crossing_tests[i].level

\* C3: set_parameters with a base molarity <= 0 ends with the outcome
\* InvalidParameter and changes no field of the animation.
C3_InvalidParametersRejected ==
    [][(\E p \in ParamInputs : p[2] <= 0 /\ set_parameters(p[1], p[2], p[3]))
          => (last_call' = "InvalidParameter" /\ UNCHANGED animation)]_vars

\* C4: when reset_experiment returns, total_drops = 0, volume_ml = 0.0,
\* ph_value = 1.0, liquid_level = 0.15, the valve is closed and the sample
\* history is empty.
C4_ResetRestoresInitialState ==
    last_call = "reset_experiment" =>
        /\ total_drops = 0
        /\ volume_ml = 0
        /\ ph_value = PH1
        /\ liquid_level = initial_liquid_level
        /\ ~burette_valve_open
        /\ x_data = <<>>
        /\ y_data = <<>>

\* a reset after a tick that saw a surface raised by earlier arrivals
C4_Witness ==
    /\ last_call = "reset_experiment"
    /\ surface_y > flask_bottom_y + initial_liquid_level

\* C5: the sample history holds one (volume, pH) sample per drop of the run.
C5_OneSamplePerDrop ==
    /\ Len(x_data) = total_drops
    /\ Len(y_data) = total_drops

\* C6: ph_value is what the chemistry model computes for the current volume,
\* parameters and reaction type.
C6_PhIsModelValue ==
    ph_value = ChemistryModel(reaction_type, acid_molarity, base_molarity,
                              acid_volume_ml, volume_ml)

\* C7: strong acid / strong base: after a drop arrival that leaves
\* |base_moles - acid_moles| < 1e-6, ph_value is 7.0.
C7_EquivalenceGivesSeven ==
    ( /\ DropArrived
      /\ reaction_type = "SA_SB"
      /\ Abs(base_molarity * volume_ml - 100 * acid_molarity * acid_volume_ml)
             < equivalence_tolerance )
        => ph_value = PH7

\* C8: a step that lowers total_drops or volume_ml is a reset: ticks and the
\* valve, indicator and drop-rate commands leave them equal or larger.
C8_OnlyResetLowersCounters ==
    [][(total_drops' < total_drops \/ volume_ml' < volume_ml)
          => (ResetReturned')]_vars

\* a command issued after two drops of the run have arrived
C8_Witness ==
    /\ last_call = "command"
    /\ total_drops >= 2
    /\ volume_ml >= 2 * ml_per_drop

\* C9: volume_ml = total_drops * ml_per_drop in every reachable state.
C9_VolumeIsDropsTimesMlPerDrop ==
    volume_ml = total_drops * ml_per_drop

\* the third drop of a run has arrived
C9_Witness ==
    /\ DropArrived
    /\ total_drops = 3

\* C10: toggle_valve leaves the droplet list as it is, and a droplet in flight
\* while the valve is closed is counted in total_drops later on, unless a
\* reset returns first.
C10_ClosedValveDropletsArrive ==
    /\ [][toggle_valve => droplets' = droplets]_vars
    /\ \A id \in 1..MaxDrops :
           (id \in InFlightIds /\ ~burette_valve_open)
               ~> (id \in ArrivedIds \/ ResetReturned)

\* a drop arrives while the valve is closed
C10_Witness ==
    /\ DropArrived
    /\ ~burette_valve_open
    /\ total_drops >= 1

\* C11: liquid_level lies in [0.15, 0.7] in every reachable state; it is
\* 0.15 + 0.0015 per arrived drop of the run while that does not exceed 0.7,
\* and 0.7 from the arrival that would exceed it onwards.
C11_LevelBoundedAndClamped ==
    /\ initial_liquid_level <= liquid_level
    /\ liquid_level <= max_liquid_level
    /\ liquid_level =
           IF initial_liquid_level + level_increment * total_drops > max_liquid_level
           THEN max_liquid_level
           ELSE initial_liquid_level + level_increment * total_drops

\* a drop arrives in a flask already held at 0.7 by the arrival before it
C11_Witness ==
    /\ DropArrived
    /\ liquid_level = max_liquid_level
    /\ initial_liquid_level + level_increment * (total_drops - 1) > max_liquid_level

\* C12: when toggle_reaction_type returns, and when set_parameters returns
\* without an error, total_drops = 0, volume_ml = 0.0, liquid_level = 0.15,
\* ph_value = 1.0, the valve is closed, no droplet is in flight and the sample
\* history is empty; no step changes reaction_type and leaves total_drops > 0.
C12_TypeAndParameterChangesReset ==
    /\ [](last_call \in {"toggle_reaction_type", "set_parameters"} =>
              /\ total_drops = 0
              /\ volume_ml = 0
              /\ liquid_level = initial_liquid_level
              /\ ph_value = PH1
              /\ ~burette_valve_open
              /\ droplets = <<>>
              /\ x_data = <<>>
              /\ y_data = <<>>)
    /\ [][reaction_type' # reaction_type => total_drops' = 0]_vars

\* set_parameters returned after clearing a droplet in flight, in an experiment
\* whose reaction type had been changed, over a surface that arrivals had raised
C12_Witness ==
    /\ last_call = "set_parameters"
    /\ discarded >= 1
    /\ reaction_type # "SA_SB"
    /\ surface_y > flask_bottom_y + initial_liquid_level

\* C13: reset_animation leaves indicator_active, reaction_type, drop_rate,
\* acid_molarity, base_molarity, acid_volume_ml and eq_volume_ml as they were:
\* all seven across reset_experiment, and across toggle_reaction_type and
\* set_parameters those that the caller itself does not assign.
C13_ResetLeavesSettings ==
    [][/\ last_call' = "reset_experiment" =>
              UNCHANGED <<indicator_active, reaction_type, drop_rate, acid_molarity,
                          base_molarity, acid_volume_ml, eq_volume_ml>>
       /\ last_call' = "toggle_reaction_type" =>
              UNCHANGED <<indicator_active, drop_rate, acid_molarity,
                          base_molarity, acid_volume_ml, eq_volume_ml>>
       /\ last_call' = "set_parameters" =>
              UNCHANGED <<indicator_active, reaction_type, drop_rate>>]_vars

\* reset_experiment returned after clearing a droplet in flight, with none of
\* the seven settings at the value it had after construction
C13_Witness ==
    /\ last_call = "reset_experiment"
    /\ discarded >= 1
    /\ ~indicator_active
    /\ reaction_type # "SA_SB"
    /\ drop_rate # initial_drop_rate
    /\ acid_molarity # 10
    /\ base_molarity # 10
    /\ acid_volume_ml # 50
    /\ eq_volume_ml # <<6, 1>>

\* C14: a droplet spawned before a reset (reset_experiment,
\* toggle_reaction_type, a set_parameters that returns) is never counted
\* after it.  When the reset returns no droplet is in flight, total_drops is 0
\* and the valve is closed; from then on every droplet in flight or counted
\* is one of the next_id - 1 objects spawned since, a droplet is spawned only
\* with the valve open, and total_drops leaves 0 only in a tick in which one
\* of those new droplets went below the surface.
C14_NoDropCountedAcrossReset ==
    /\ [](ResetReturned =>
              /\ droplets = <<>>
              /\ total_drops = 0
              /\ ~burette_valve_open)
    /\ [](/\ total_drops = Len(arrived)
          /\ total_drops + Len(droplets) = next_id - 1
          /\ InFlightIds \cup ArrivedIds = 1..(next_id - 1))
    /\ [][next_id' > next_id => burette_valve_open]_vars
    /\ [][(total_drops = 0 /\ total_drops' > 0) =>
              /\ last_call' = "update_animation"
              /\ \E i \in 1..Len(crossing_tests') :
                     /\ crossing_tests'[i].hit
                     /\ crossing_tests'[i].id \in 1..(next_id' - 1)]_vars

\* a reset returned after clearing a droplet in flight, in a run in which
\* a drop had arrived
C14_Witness ==
    /\ ResetReturned
    /\ discarded >= 1
    /\ surface_y > flask_bottom_y + initial_liquid_level

\* C15: in TitrationSimulation finished is absorbing until reset.  finished
\* holds only with volume >= max_volume; the update that brings volume to
\* max_volume or more sets finished and clears running; while finished, update
\* and start_stop leave volume, data and finished as they are; finished becomes
\* false only by reset; and an update made while not running appends nothing.
C15_FinishedAbsorbingUntilReset ==
    /\ [](finished => volume >= max_volume)
    /\ [][(/\ last_call' = "TitrationSimulation.update"
            /\ volume' # volume
            /\ volume' >= max_volume) => (finished' /\ ~running')]_vars
    /\ [][(/\ finished
            /\ last_call' \in {"TitrationSimulation.update",
                               "TitrationSimulation.start_stop"})
              => (volume' = volume /\ data' = data /\ finished')]_vars
    /\ [][(finished /\ ~finished') => last_call' = "TitrationSimulation.reset"]_vars
    /\ [][(~running /\ last_call' = "TitrationSimulation.update")
              => data' = data]_vars

\* an update returned in a finished simulation that start_stop had set
\* running again
C15_Witness ==
    /\ finished
    /\ running
    /\ last_call = "TitrationSimulation.update"
    /\ volume >= max_volume
    /\ data # <<>>

====
